---- MODULE Spec2Model ----
(***************************************************************************)
(* Model of the tool-augmented conversational loop WeatherTimeAgent.run    *)
(* and of its tool executor WeatherTimeAgent._execute_tool                 *)
(* (01-tutorials/.../07-simple-dual-observability/agent/                   *)
(* weather_time_agent.py).                                                 *)
(*                                                                         *)
(* A Python dict is a TLA+ record (a function on its keys), a list is a    *)
(* sequence, a str is a sequence of string tokens (so that concatenation   *)
(* is \o and not the identity).  The locals of one call of run are the     *)
(* components, at index r, of the variables below.                         *)
(***************************************************************************)
EXTENDS Integers, Sequences, FiniteSets, TLC

(* ------------------------------ bounds --------------------------------- *)
\* largest max_iterations a caller passes to run
MaxBudget == 2
\* largest number of content blocks in one model response
MaxBlocks == 2

(* ----------------------- identities of the calls ----------------------- *)
RunIds == {1, 2}

\* the query each call of run is started with
Query(r) == <<"query", r>>

(* ------------------------- TOOL_SCHEMAS -------------------------------- *)
TOOL_SCHEMAS ==
  << [name |-> "get_weather", required |-> {"city"}],
     [name |-> "get_time",    required |-> {"timezone"}],
     [name |-> "calculator",  required |-> {"operation", "a"}] >>

(* ------------------- values the model (Bedrock) may send --------------- *)
StopReasons == {"end_turn", "tool_use", "max_tokens"}

TextBlocks == { [text |-> <<"X">>], [text |-> <<"Y">>] }

\* the toolUse requests the model may issue, before Bedrock stamps them
\* with a toolUseId: a good call, a call of a known tool without its
\* required key, two calculator calls, and a name that is no tool
ToolUseRequests ==
  { [name |-> "get_weather",  input |-> [city |-> "Seattle"]],
    [name |-> "get_time",     input |-> [city |-> "Seattle"]],
    [name |-> "calculator",   input |-> [operation |-> "add", a |-> 1, b |-> 2]],
    [name |-> "calculator",   input |-> [operation |-> "factorial", a |-> -5]],
    [name |-> "get_forecast", input |-> [city |-> "Seattle"]] }

BlockTemplates == TextBlocks \cup { [toolUse |-> t] : t \in ToolUseRequests }

SeqsUpTo(S, n) == UNION { [1..k -> S] : k \in 0..n }

Contents == SeqsUpTo(BlockTemplates, MaxBlocks)

\* Bedrock gives every toolUse block of every response its own toolUseId:
\* here the number of the call within the run, the position of the block
\* and the run
ToolUseId(callNo, i, r) == <<"tooluse", callNo, i, r>>

WithIds(content, callNo, r) ==
  [i \in 1..Len(content) |->
     IF "toolUse" \in DOMAIN content[i]
       THEN [toolUse |-> [name      |-> content[i].toolUse.name,
                          input     |-> content[i].toolUse.input,
                          toolUseId |-> ToolUseId(callNo, i, r)]]
       ELSE content[i]]

(* --------------------------- tool bodies ------------------------------- *)
\* outcome of a Python call: a returned value or a raised exception
Return(v) == [kind |-> "return", value |-> v]
Raise(e, m) == [kind |-> "raise", exc |-> e, msg |-> m]

\* an optional value: None, or Some(v)
None == <<>>
Some(v) == <<v>>

get_weather(city) == Return([city |-> city, temperature |-> 72])

get_time(timezone) == Return([timezone |-> timezone, time |-> "12:00"])

calculator(operation, a, b) ==
  IF operation = "factorial"
    THEN IF a < 0
           THEN Raise("ValueError", <<"factorial undefined for negative numbers">>)
           ELSE Return([operation |-> operation, result |-> 1])
    ELSE IF b = None
           THEN Raise("ValueError", <<"missing operand b">>)
           ELSE Return([operation |-> operation, result |-> a + b[1]])

(* -------------------- WeatherTimeAgent._execute_tool -------------------- *)
\* the exception classes that "except Exception" catches
ExceptionClasses == {"KeyError", "ValueError", "TypeError", "RuntimeError"}

\* a slip: the elif for get_time is missing, so that an advertised name
\* falls through to the else
dispatch_NoTimeBranch(tool_name, tool_input) ==
  IF tool_name = "get_weather"
    THEN IF "city" \in DOMAIN tool_input
           THEN get_weather(tool_input.city)
           ELSE Raise("KeyError", <<"'city'">>)
  ELSE IF tool_name = "calculator"
    THEN IF "operation" \notin DOMAIN tool_input
           THEN Raise("KeyError", <<"'operation'">>)
         ELSE IF "a" \notin DOMAIN tool_input
           THEN Raise("KeyError", <<"'a'">>)
         ELSE calculator(tool_input.operation, tool_input.a,
                         IF "b" \in DOMAIN tool_input THEN Some(tool_input.b) ELSE None)
  ELSE Raise("ValueError", <<"Unknown tool: ", tool_name>>)

\* the try block: dispatch on the tool name, look the arguments up, call
\* the tool body; tool_input[k] raises KeyError when the key k is missing,
\* tool_input.get("b") is None when b is missing
dispatch(tool_name, tool_input) ==
  IF tool_name = "get_weather"
    THEN IF "city" \in DOMAIN tool_input
           THEN get_weather(tool_input.city)
           ELSE Raise("KeyError", <<"'city'">>)
  ELSE IF tool_name = "get_time"
    THEN IF "timezone" \in DOMAIN tool_input
           THEN get_time(tool_input.timezone)
           ELSE Raise("KeyError", <<"'timezone'">>)
  ELSE IF tool_name = "calculator"
    THEN IF "operation" \notin DOMAIN tool_input
           THEN Raise("KeyError", <<"'operation'">>)
         ELSE IF "a" \notin DOMAIN tool_input
           THEN Raise("KeyError", <<"'a'">>)
         ELSE calculator(tool_input.operation, tool_input.a,
                         IF "b" \in DOMAIN tool_input THEN Some(tool_input.b) ELSE None)
  ELSE Raise("ValueError", <<"Unknown tool: ", tool_name>>)

\* the payload the except clause returns
ErrorPayload(e, tool_name, tool_input) ==
  [error |-> e.msg, tool_name |-> tool_name, tool_input |-> tool_input]

\* a slip: the branch for a name that is no tool raises outside the try
execute_tool_UnknownEscapes(tool_name, tool_input) ==
  LET r == dispatch(tool_name, tool_input) IN
    IF /\ r.kind = "raise"
       /\ r.exc \in ExceptionClasses
       /\ tool_name \in {"get_weather", "get_time", "calculator"}
      THEN Return(ErrorPayload(r, tool_name, tool_input))
      ELSE r

\* a slip: "except ValueError" in place of "except Exception"
execute_tool_CatchesValueErrorOnly(tool_name, tool_input) ==
  LET r == dispatch(tool_name, tool_input) IN
    IF r.kind = "raise" /\ r.exc = "ValueError"
      THEN Return(ErrorPayload(r, tool_name, tool_input))
      ELSE r

\* a slip: the except clause logs the exception and raises it again
execute_tool_Reraises(tool_name, tool_input) == dispatch(tool_name, tool_input)

execute_tool(tool_name, tool_input) ==
  LET r == dispatch(tool_name, tool_input) IN
    IF r.kind = "raise" /\ r.exc \in ExceptionClasses
      THEN Return(ErrorPayload(r, tool_name, tool_input))
      ELSE r

(* ------------------------ WeatherTimeAgent.run -------------------------- *)
VARIABLES
  callers,          \* the calls of run that are made
  pc,               \* where each call of run stands
  max_iterations,   \* run's parameter
  messages,         \* run's local: the conversation
  iteration,        \* run's local: the loop counter
  assistant_content,\* run's local: content of the last response
  blockIdx,         \* position of the for loop in assistant_content
  tool_results,     \* run's local: results of the current turn
  outcome,          \* what run returned or raised
  calls,            \* history: number of calls of bedrock.converse
  responses,        \* history: the responses of bedrock.converse, in order
  executed,         \* history: toolUseIds handed to _execute_tool, in order
  sent,             \* history: the requests passed to bedrock.converse, in order
  offered,          \* the response contents the model answers with
  budgets           \* the values of max_iterations run is called with

runVars == <<callers, pc, max_iterations, messages, iteration, assistant_content,
             blockIdx, tool_results, outcome, calls, responses, executed, sent,
             offered, budgets>>

(* --------------- strands_agent_bedrock, _initialize_agent --------------- *)
VARIABLES
  module,           \* the agent module that is deployed
  environ,          \* os.environ: USE_GATEWAY and GATEWAY_ARN
  entry_pc,         \* where the entrypoint stands
  mcp_client,       \* _initialize_agent's local
  tools,            \* _initialize_agent's local: the tools given to Agent
  contacted,        \* history: a connection to the Gateway was attempted
  entry_outcome     \* what the entrypoint returned or raised

entryVars == <<module, environ, entry_pc, mcp_client, tools, contacted,
               entry_outcome>>

(* ------------------- lambda_handler of the tool Lambdas ----------------- *)
VARIABLES
  lambda_name,      \* the Lambda that is invoked
  event,            \* lambda_handler's parameter
  lambda_pc,        \* where the handler stands
  tool_args,        \* the arguments the tool is called with
  tool_calls,       \* history: number of calls of the tool
  tool_outcome,     \* history: what the tool returned or raised
  response          \* what the handler returned or raised

handlerVars == <<lambda_name, event, lambda_pc, tool_args, tool_calls,
                 tool_outcome, response>>

(* -------------------- deploy_agent._wait_for_agent_ready ---------------- *)
VARIABLES
  wait_pc,          \* where _wait_for_agent_ready stands
  wait_attempt,     \* its local attempt: the loop counter
  wait_status,      \* its local status: the status of the last poll
  polls,            \* history: number of calls of agentcore_runtime.status
  exit_code         \* the argument of sys.exit, None when it was not called

waitVars == <<wait_pc, wait_attempt, wait_status, polls, exit_code>>

(* -------------------- configure_gateway._create_gateway ----------------- *)
VARIABLES
  gw_pc,            \* where _create_gateway stands
  gw_attempt,       \* its local attempt: the position of the for loop
  gw_status,        \* its local status: the status of the last poll
  gw_polls,         \* history: number of calls of get_gateway in the loop
  gw_observed,      \* history: the statuses the get_gateway responses carried
  gw_outcome        \* what _create_gateway returned or raised

gatewayVars == <<gw_pc, gw_attempt, gw_status, gw_polls, gw_observed, gw_outcome>>

\* the variables that no step of run touches
outsideRun == <<entryVars, handlerVars, waitVars, gatewayVars>>

\* the variables that no step of the entrypoint touches
outsideEntry == <<runVars, handlerVars, waitVars, gatewayVars>>

\* the variables that no step of a Lambda handler touches
outsideHandler == <<runVars, entryVars, waitVars, gatewayVars>>

\* the variables that no step of _wait_for_agent_ready touches
outsideWait == <<runVars, entryVars, handlerVars, gatewayVars>>

\* the variables that no step of _create_gateway touches
outsideGateway == <<runVars, entryVars, handlerVars, waitVars>>

vars == <<runVars, entryVars, handlerVars, waitVars, gatewayVars>>

NoOutcome == [kind |-> "none"]

\* a ClientError raised by bedrock.converse
ClientError == Raise("ClientError", <<"ThrottlingException">>)

\* json.dumps: the text of a value
JsonDumps(v) == <<"json", v>>

\* line 183: the value of max_iterations when the caller passes none
DefaultMaxIterations == 5

\* lines 206-211: the conversation run starts with, whatever earlier or
\* other calls of run have in theirs
InitialMessages_KeepsHistory(all_messages, r) ==
  all_messages[CHOOSE q \in RunIds : q # r]
  \o << [role |-> "user", content |-> << [text |-> Query(r)] >>] >>

InitialMessages(all_messages, r) ==
  << [role |-> "user", content |-> << [text |-> Query(r)] >>] >>

\* lines 255 and 289: messages.append
AppendMessage_Overwrites(msgs, m) == << m >>

AppendMessage(msgs, m) == Append(msgs, m)

\* lines 243-258: the conversation after a response is taken in; only a
\* tool_use response adds its assistant message
MessagesAfterResponse_AlwaysAppends(msgs, stop_reason, content) ==
  AppendMessage(msgs, [role |-> "assistant", content |-> content])

\* a slip: the assistant message keeps the toolUse blocks only
MessagesAfterResponse_DropsText(msgs, stop_reason, content) ==
  LET IsUse(b) == "toolUse" \in DOMAIN b IN
    IF stop_reason = "tool_use"
      THEN AppendMessage(msgs, [role    |-> "assistant",
                                content |-> SelectSeq(content, IsUse)])
      ELSE msgs

MessagesAfterResponse(msgs, stop_reason, content) ==
  IF stop_reason = "tool_use"
    THEN AppendMessage(msgs, [role |-> "assistant", content |-> content])
    ELSE msgs

\* lines 289-292: the message that carries the results of a turn
ToolResultsMessage_WrongRole(results) ==
  [role |-> "assistant", content |-> results]

ToolResultsMessage(results) == [role |-> "user", content |-> results]

\* line 215: iteration += 1
NextIteration_NotCounted(it) == it

NextIteration(it) == it + 1

\* lines 224-228: the toolConfig of every call of bedrock.converse
ToolConfig_FirstToolOnly ==
  [tools |-> << [toolSpec |-> TOOL_SCHEMAS[1]] >>]

ToolConfig ==
  [tools |-> [i \in 1..Len(TOOL_SCHEMAS) |-> [toolSpec |-> TOOL_SCHEMAS[i]]]]

\* lines 220-233: the request of one call of bedrock.converse
ConverseRequest(msgs) == [messages |-> msgs, toolConfig |-> ToolConfig]

\* the while condition, line 214
LoopCondition_OffByOneLow(it, max) == it + 1 < max

LoopCondition_OffByOneHigh(it, max) == it <= max

\* a slip: the loop body runs once before the condition is looked at
LoopCondition_DoWhile(it, max) == it = 0 \/ it < max

LoopCondition(it, max) == it < max

\* lines 245-248: the concatenation of the text blocks of the content
RECURSIVE final_text_FirstBlockOnly(_)
final_text_FirstBlockOnly(content) ==
  IF content = <<>> THEN <<>>
  ELSE IF "text" \in DOMAIN Head(content) THEN Head(content).text
  ELSE final_text_FirstBlockOnly(Tail(content))

RECURSIVE final_text(_)
final_text(content) ==
  IF content = <<>> THEN <<>>
  ELSE (IF "text" \in DOMAIN Head(content) THEN Head(content).text ELSE <<>>)
       \o final_text(Tail(content))

\* lines 279-286: the toolResult block of one executed toolUse, added at
\* the end of tool_results
AddToolResult_Prepends(results, tool_use_id, tool_result) ==
  << [toolResult |-> [toolUseId |-> tool_use_id,
                      content   |-> << [text |-> JsonDumps(tool_result)] >>]] >>
  \o results

\* a slip: the result of the tool is not kept
AddToolResult_Drops(results, tool_use_id, tool_result) == results

AddToolResult(results, tool_use_id, tool_result) ==
  Append(results,
         [toolResult |-> [toolUseId |-> tool_use_id,
                          content   |-> << [text |-> JsonDumps(tool_result)] >>]])

\* a slip: the for loop is left after the first toolUse block
NextToolUse_OnlyFirst(content, from) ==
  LET uses == { i \in 1..Len(content) : "toolUse" \in DOMAIN content[i] } IN
    IF from = 1 /\ uses # {}
      THEN CHOOSE i \in uses : \A j \in uses : i <= j
      ELSE Len(content) + 1

\* lines 263-264: the index of the first toolUse block at or after from,
\* Len(content) + 1 when there is none
RECURSIVE NextToolUse(_, _)
NextToolUse(content, from) ==
  IF from > Len(content) THEN from
  ELSE IF "toolUse" \in DOMAIN content[from] THEN from
  ELSE NextToolUse(content, from + 1)

\* no entrypoint is invoked
NoEntry ==
  /\ module = "none"
  /\ environ = [USE_GATEWAY |-> None, GATEWAY_ARN |-> None]
  /\ entry_pc = "OFF"
  /\ mcp_client = None
  /\ tools = "none"
  /\ contacted = FALSE
  /\ entry_outcome = [kind |-> "none"]

\* no Lambda is invoked
NoHandler ==
  /\ lambda_name = "none"
  /\ event = None
  /\ lambda_pc = "OFF"
  /\ tool_args = None
  /\ tool_calls = 0
  /\ tool_outcome = [kind |-> "none"]
  /\ response = [kind |-> "none"]

\* deploy_agent is not run
NoWait ==
  /\ wait_pc = "OFF"
  /\ wait_attempt = 0
  /\ wait_status = None
  /\ polls = 0
  /\ exit_code = None

\* configure_gateway is not run
NoGateway ==
  /\ gw_pc = "OFF"
  /\ gw_attempt = 0
  /\ gw_status = None
  /\ gw_polls = 0
  /\ gw_observed = {}
  /\ gw_outcome = [kind |-> "none"]

(* state after the agent is constructed: no call of run is in progress *)
InitLocals ==
  /\ pc = [r \in RunIds |-> "IDLE"]
  /\ max_iterations = [r \in RunIds |-> 0]
  /\ messages = [r \in RunIds |-> <<>>]
  /\ iteration = [r \in RunIds |-> 0]
  /\ assistant_content = [r \in RunIds |-> <<>>]
  /\ blockIdx = [r \in RunIds |-> 0]
  /\ tool_results = [r \in RunIds |-> <<>>]
  /\ outcome = [r \in RunIds |-> NoOutcome]
  /\ calls = [r \in RunIds |-> 0]
  /\ responses = [r \in RunIds |-> <<>>]
  /\ executed = [r \in RunIds |-> <<>>]
  /\ sent = [r \in RunIds |-> <<>>]

Init ==
  /\ callers = {1}
  /\ offered = Contents
  /\ budgets = 0..MaxBudget
  /\ InitLocals
  /\ NoEntry
  /\ NoHandler
  /\ NoWait
  /\ NoGateway

\* lines 204-212: run is called; the conversation is seeded with the query
StartRun(r) ==
  /\ r \in callers
  /\ pc[r] = "IDLE"
  /\ \E m \in budgets :
       max_iterations' = [max_iterations EXCEPT ![r] = m]
  /\ messages' = [messages EXCEPT ![r] = InitialMessages(messages, r)]
  /\ iteration' = [iteration EXCEPT ![r] = 0]
  /\ pc' = [pc EXCEPT ![r] = "AWAITING_MODEL"]
  /\ UNCHANGED <<callers, assistant_content, blockIdx, tool_results, outcome,
                 calls, responses, executed, sent,
                 offered, budgets>>
  /\ UNCHANGED outsideRun

\* lines 214-297: the loop is entered, bedrock.converse returns a response
\* and run handles it up to its return or up to its next call of a tool
ConverseReturns(r) ==
  /\ pc[r] = "AWAITING_MODEL"
  /\ LoopCondition(iteration[r], max_iterations[r])
  /\ iteration' = [iteration EXCEPT ![r] = NextIteration(@)]
  /\ calls' = [calls EXCEPT ![r] = @ + 1]
  /\ sent' = [sent EXCEPT ![r] = Append(@, ConverseRequest(messages[r]))]
  /\ \E stop_reason \in StopReasons, c \in offered :
       LET content == WithIds(c, calls[r] + 1, r)
           first   == NextToolUse(content, 1)
           taken   == MessagesAfterResponse(messages[r], stop_reason, content)
       IN
         /\ responses' = [responses EXCEPT ![r] =
                            Append(@, [stopReason |-> stop_reason,
                                       content    |-> content])]
         /\ assistant_content' = [assistant_content EXCEPT ![r] = content]
         /\ IF stop_reason = "end_turn"
              THEN /\ outcome' = [outcome EXCEPT ![r] = Return(final_text(content))]
                   /\ pc' = [pc EXCEPT ![r] = "DONE"]
                   /\ messages' = [messages EXCEPT ![r] = taken]
                   /\ UNCHANGED <<tool_results, blockIdx>>
            ELSE IF stop_reason = "tool_use"
              THEN /\ tool_results' = [tool_results EXCEPT ![r] = <<>>]
                   /\ blockIdx' = [blockIdx EXCEPT ![r] = first]
                   /\ UNCHANGED outcome
                   /\ IF first > Len(content)
                        THEN /\ messages' = [messages EXCEPT ![r] =
                                   AppendMessage(taken, ToolResultsMessage(<<>>))]
                             /\ pc' = [pc EXCEPT ![r] = "AWAITING_MODEL"]
                        ELSE /\ messages' = [messages EXCEPT ![r] = taken]
                             /\ pc' = [pc EXCEPT ![r] = "EXECUTING_TOOLS"]
            ELSE /\ outcome' = [outcome EXCEPT ![r] =
                      Return(<<"Unexpected stop reason: ", stop_reason>>)]
                 /\ pc' = [pc EXCEPT ![r] = "DONE"]
                 /\ messages' = [messages EXCEPT ![r] = taken]
                 /\ UNCHANGED <<tool_results, blockIdx>>
  /\ UNCHANGED <<callers, max_iterations, executed,
                 offered, budgets>>
  /\ UNCHANGED outsideRun

\* a slip: the ClientError is logged and the loop goes on
ConverseRaises_Swallowed(r) ==
  /\ pc[r] = "AWAITING_MODEL"
  /\ LoopCondition(iteration[r], max_iterations[r])
  /\ iteration' = [iteration EXCEPT ![r] = NextIteration(@)]
  /\ calls' = [calls EXCEPT ![r] = @ + 1]
  /\ sent' = [sent EXCEPT ![r] = Append(@, ConverseRequest(messages[r]))]
  /\ responses' = [responses EXCEPT ![r] = Append(@, ClientError)]
  /\ UNCHANGED <<callers, pc, outcome, max_iterations, messages,
                 assistant_content, blockIdx, tool_results, executed,
                 offered, budgets>>
  /\ UNCHANGED outsideRun

\* lines 214-233 and 299-303: the loop is entered, bedrock.converse raises
\* ClientError; the except clause logs it and raises it again
ConverseRaises(r) ==
  /\ pc[r] = "AWAITING_MODEL"
  /\ LoopCondition(iteration[r], max_iterations[r])
  /\ iteration' = [iteration EXCEPT ![r] = NextIteration(@)]
  /\ calls' = [calls EXCEPT ![r] = @ + 1]
  /\ sent' = [sent EXCEPT ![r] = Append(@, ConverseRequest(messages[r]))]
  /\ responses' = [responses EXCEPT ![r] = Append(@, ClientError)]
  /\ outcome' = [outcome EXCEPT ![r] = ClientError]
  /\ pc' = [pc EXCEPT ![r] = "FAILED"]
  /\ UNCHANGED <<callers, max_iterations, messages, assistant_content,
                 blockIdx, tool_results, executed,
                 offered, budgets>>
  /\ UNCHANGED outsideRun

\* lines 263-292: _execute_tool is called for the toolUse block at blockIdx
\* and returns; its result is added to tool_results, and after the last
\* toolUse block of the content the results are appended as one user message
ToolReturns(r) ==
  /\ pc[r] = "EXECUTING_TOOLS"
  /\ LET content  == assistant_content[r]
         tool_use == content[blockIdx[r]].toolUse
         res      == execute_tool(tool_use.name, tool_use.input)
         next     == NextToolUse(content, blockIdx[r] + 1)
     IN
       /\ executed' = [executed EXCEPT ![r] = Append(@, tool_use.toolUseId)]
       /\ IF res.kind = "raise"
            THEN \* not a ClientError: nothing in run catches it
                 /\ outcome' = [outcome EXCEPT ![r] = res]
                 /\ pc' = [pc EXCEPT ![r] = "FAILED"]
                 /\ UNCHANGED <<messages, tool_results, blockIdx>>
            ELSE LET results ==
                       AddToolResult(tool_results[r], tool_use.toolUseId, res.value)
                 IN
                   /\ tool_results' = [tool_results EXCEPT ![r] = results]
                   /\ blockIdx' = [blockIdx EXCEPT ![r] = next]
                   /\ UNCHANGED outcome
                   /\ IF next > Len(content)
                        THEN /\ messages' = [messages EXCEPT ![r] =
                                   AppendMessage(@, ToolResultsMessage(results))]
                             /\ pc' = [pc EXCEPT ![r] = "AWAITING_MODEL"]
                        ELSE UNCHANGED <<messages, pc>>
  /\ UNCHANGED <<callers, max_iterations, iteration, assistant_content,
                 calls, responses, sent,
                 offered, budgets>>
  /\ UNCHANGED outsideRun

\* a slip: nothing is raised after the loop, control stays at the loop head
MaxIterationsExceeded_Spins(r) ==
  /\ pc[r] = "AWAITING_MODEL"
  /\ ~ LoopCondition(iteration[r], max_iterations[r])
  /\ UNCHANGED vars

\* lines 214 and 305-308: the while condition is false
MaxIterationsExceeded(r) ==
  /\ pc[r] = "AWAITING_MODEL"
  /\ ~ LoopCondition(iteration[r], max_iterations[r])
  /\ outcome' = [outcome EXCEPT ![r] =
                   Raise("RuntimeError",
                         <<"Max iterations (", max_iterations[r], ") exceeded">>)]
  /\ pc' = [pc EXCEPT ![r] = "FAILED"]
  /\ UNCHANGED <<callers, max_iterations, messages, iteration, assistant_content,
                 blockIdx, tool_results, calls, responses, executed, sent,
                 offered, budgets>>
  /\ UNCHANGED outsideRun

Next ==
  \E r \in RunIds :
    \/ StartRun(r)
    \/ ConverseReturns(r)
    \/ ConverseRaises(r)
    \/ ToolReturns(r)
    \/ MaxIterationsExceeded(r)

Spec == Init /\ [][Next]_vars

\* the steps of a run that is under way: bedrock.converse and the tools are
\* synchronous calls, run goes on as soon as they return or raise
Step(r) ==
  \/ ConverseReturns(r)
  \/ ConverseRaises(r)
  \/ ToolReturns(r)
  \/ MaxIterationsExceeded(r)

\* every call of bedrock.converse and every call of a tool comes back
Fairness == \A r \in RunIds : WF_vars(Step(r))

\* a run whose model answers with one of a few contents: no block, a text,
\* a good tool call, a tool call whose body fails, and two failing calls
SmallContents ==
  { <<>>,
    << [text |-> <<"X">>] >>,
    << [toolUse |-> [name |-> "get_weather", input |-> [city |-> "Seattle"]]] >>,
    << [toolUse |-> [name  |-> "calculator",
                     input |-> [operation |-> "factorial", a |-> -5]]] >>,
    << [toolUse |-> [name |-> "get_time", input |-> [city |-> "Seattle"]]],
       [toolUse |-> [name |-> "get_forecast", input |-> [city |-> "Seattle"]]] >> }

InitLive ==
  /\ callers = {1}
  /\ offered = SmallContents
  /\ budgets = 0..MaxBudget
  /\ InitLocals
  /\ NoEntry
  /\ NoHandler
  /\ NoWait
  /\ NoGateway

SpecLive == InitLive /\ [][Next]_vars /\ Fairness

\* two calls of run on one agent, in any interleaving of their steps
InitTwo ==
  /\ callers = RunIds
  /\ offered = SmallContents
  /\ budgets = 0..MaxBudget
  /\ InitLocals
  /\ NoEntry
  /\ NoHandler
  /\ NoWait
  /\ NoGateway

SpecTwo == InitTwo /\ [][Next]_vars

TypeOK ==
  /\ callers \subseteq RunIds
  /\ pc \in [RunIds -> {"IDLE", "AWAITING_MODEL", "EXECUTING_TOOLS", "DONE", "FAILED"}]
  /\ iteration \in [RunIds -> 0..(MaxBudget + 1)]
  /\ max_iterations \in [RunIds -> budgets \cup {0}]

(* ===================== properties of the loop ========================== *)
\* x is a response of bedrock.converse (and not a raised ClientError)
IsResponse(x) == "stopReason" \in DOMAIN x

HasStop(x, stop) == IsResponse(x) /\ x.stopReason = stop

IsToolUseBlock(b) == "toolUse" \in DOMAIN b

\* the invocation ids of the toolUse blocks of a content, in order
RequestIds(content) ==
  LET uses == SelectSeq(content, IsToolUseBlock)
  IN [i \in 1..Len(uses) |-> uses[i].toolUse.toolUseId]

\* the invocation ids of the toolResult blocks of a content, in order
ResultIds(content) ==
  [i \in 1..Len(content) |-> content[i].toolResult.toolUseId]

\* the text of the first n blocks of a content
RECURSIVE TextUpTo(_, _)
TextUpTo(content, n) ==
  IF n = 0 THEN <<>>
  ELSE TextUpTo(content, n - 1)
       \o (IF "text" \in DOMAIN content[n] THEN content[n].text ELSE <<>>)

TextOf(content) == TextUpTo(content, Len(content))

\* the first n responses of run r all have stop reason tool_use
AllToolUse(r, n) == \A i \in 1..n : HasStop(responses[r][i], "tool_use")

\* the n-th response of run r has been handled to the end of its turn
TurnHandled(r, n) == n < Len(responses[r]) \/ pc[r] # "EXECUTING_TOOLS"

\* C1: for every response with stop reason tool_use that run has handled,
\* the user message appended after the assistant message holds one
\* toolResult per toolUse block of the response, and the i-th toolResult
\* carries the toolUseId of the i-th toolUse block, in the same order.
C1_OneResultPerRequestInOrder ==
  \A r \in RunIds : \A n \in 1..Len(responses[r]) :
    (HasStop(responses[r][n], "tool_use") /\ TurnHandled(r, n)) =>
      /\ Len(messages[r]) >= 2 * n + 1
      /\ messages[r][2 * n] =
           [role |-> "assistant", content |-> responses[r][n].content]
      /\ messages[r][2 * n + 1].role = "user"
      /\ Len(messages[r][2 * n + 1].content) =
           Len(RequestIds(responses[r][n].content))
      /\ ResultIds(messages[r][2 * n + 1].content) =
           RequestIds(responses[r][n].content)

\* a handled tool_use response with two toolUse blocks
C1_Witness ==
  \E r \in RunIds : \E n \in 1..Len(responses[r]) :
    /\ HasStop(responses[r][n], "tool_use")
    /\ TurnHandled(r, n)
    /\ Len(RequestIds(responses[r][n].content)) = 2
    /\ Len(messages[r][2 * n + 1].content) = 2

\* C2: if the first response of a run has stop reason end_turn and text X,
\* run returns X after exactly one model call and one iteration, and no
\* tool is executed.
C2_FirstFinalReturnsAfterOneCall ==
  \A r \in RunIds :
    (Len(responses[r]) >= 1 /\ HasStop(responses[r][1], "end_turn")) =>
      /\ pc[r] = "DONE"
      /\ outcome[r] = Return(TextOf(responses[r][1].content))
      /\ calls[r] = 1
      /\ iteration[r] = 1
      /\ Len(responses[r]) = 1
      /\ executed[r] = <<>>

\* a first response end_turn whose text is made of two text blocks
C2_Witness ==
  \E r \in RunIds :
    /\ Len(responses[r]) = 1
    /\ HasStop(responses[r][1], "end_turn")
    /\ Len(responses[r][1].content) = 2
    /\ outcome[r] = Return(<<"X", "Y">>)

\* C3: for 0 <= k < budget, a run whose first k responses are tool_use and
\* whose response k+1 is end_turn makes exactly k+1 model calls and returns
\* the text of response k+1; before that response the run has not ended.
C3_KRoundTripsTakeKPlusOneCalls ==
  \A r \in RunIds :
    LET n == Len(responses[r]) IN
      /\ (n >= 1 /\ n <= max_iterations[r] /\ AllToolUse(r, n - 1)
            /\ HasStop(responses[r][n], "end_turn")) =>
           /\ pc[r] = "DONE"
           /\ calls[r] = n
           /\ outcome[r] = Return(TextOf(responses[r][n].content))
      /\ (pc[r] # "IDLE" /\ n < max_iterations[r] /\ AllToolUse(r, n)) =>
           /\ pc[r] \in {"AWAITING_MODEL", "EXECUTING_TOOLS"}
           /\ calls[r] = n
           /\ outcome[r] = NoOutcome

\* one tool round trip, then the final answer of the second call
C3_Witness ==
  \E r \in RunIds :
    /\ Len(responses[r]) = 2
    /\ HasStop(responses[r][1], "tool_use")
    /\ RequestIds(responses[r][1].content) # <<>>
    /\ HasStop(responses[r][2], "end_turn")
    /\ calls[r] = 2
    /\ outcome[r] = Return(<<"Y">>)

\* the error run raises when the budget is used up
LoopBudgetExceeded(budget) ==
  Raise("RuntimeError", <<"Max iterations (", budget, ") exceeded">>)

\* C4: a run whose responses are tool_use for budget consecutive calls ends
\* with the error "Max iterations (budget) exceeded" and never with an
\* answer, and no run makes more than max_iterations model calls.
C4_BudgetBoundsTheModelCalls ==
  \A r \in RunIds :
    /\ calls[r] <= max_iterations[r]
    /\ Len(responses[r]) <= max_iterations[r]
    /\ (pc[r] \in {"DONE", "FAILED"} /\ Len(responses[r]) = max_iterations[r]
          /\ AllToolUse(r, max_iterations[r])) =>
         /\ pc[r] = "FAILED"
         /\ outcome[r] = LoopBudgetExceeded(max_iterations[r])

\* the budget of 2 used up by two tool_use responses
C4_Witness ==
  \E r \in RunIds :
    /\ max_iterations[r] = 2
    /\ calls[r] = 2
    /\ AllToolUse(r, 2)
    /\ executed[r] # <<>>
    /\ pc[r] = "FAILED"
    /\ outcome[r] = LoopBudgetExceeded(2)

\* the names of the tools that are advertised to the model
AdvertisedNames == { TOOL_SCHEMAS[i].name : i \in 1..Len(TOOL_SCHEMAS) }

\* the toolUse block whose _execute_tool call is in progress
CurrentToolUse(r) == assistant_content[r][blockIdx[r]].toolUse

\* json.loads: the value a text stands for
JsonLoads(t) == t[2]

\* the payload carried by a toolResult block
Payload(block) == JsonLoads(block.toolResult.content[1].text)

Last(s) == s[Len(s)]

\* a step of run r in which a call of _execute_tool returns or raises
ToolStep(r) == pc[r] = "EXECUTING_TOOLS" /\ executed'[r] # executed[r]

C7_ClientErrorPropagates ==
  \A r \in RunIds : \A n \in 1..Len(responses[r]) :
    (responses[r][n] = ClientError) =>
      /\ n = Len(responses[r])
      /\ calls[r] = n
      /\ iteration[r] = n
      /\ pc[r] = "FAILED"
      /\ outcome[r] = ClientError
      /\ Len(messages[r]) = 2 * n - 1
      /\ \A i \in 1..Len(executed[r]) : executed[r][i][2] < n

\* a ClientError on the second model call, after a turn of tools
C7_Witness ==
  \E r \in RunIds :
    /\ Len(responses[r]) = 2
    /\ responses[r][2] = ClientError
    /\ executed[r] # <<>>
    /\ pc[r] = "FAILED"

\* C8: a response whose stop reason is neither end_turn nor tool_use ends
\* the run in an error outcome and never in a returned answer.
C8_UnexpectedStopReasonIsAnError ==
  \A r \in RunIds : \A n \in 1..Len(responses[r]) :
    (IsResponse(responses[r][n])
       /\ responses[r][n].stopReason \notin {"end_turn", "tool_use"}) =>
      /\ pc[r] = "FAILED"
      /\ outcome[r].kind = "raise"

\* C9: a tool_use response without any toolUse block makes the run fail at
\* that response; the loop does not go back to AWAITING_MODEL.
C9_EmptyToolUseIsAnError ==
  \A r \in RunIds : \A n \in 1..Len(responses[r]) :
    (HasStop(responses[r][n], "tool_use")
       /\ RequestIds(responses[r][n].content) = <<>>) =>
      /\ pc[r] = "FAILED"
      /\ outcome[r].kind = "raise"
      /\ Len(responses[r]) = n

\* the positions of the toolResult blocks of the conversation of run r that
\* carry the invocation id
Answers(r, id) ==
  { <<m, i>> \in (1..Len(messages[r])) \X (1..MaxBlocks) :
      /\ i <= Len(messages[r][m].content)
      /\ "toolResult" \in DOMAIN messages[r][m].content[i]
      /\ messages[r][m].content[i].toolResult.toolUseId = id }

\* C10: whenever run returns a final answer, every toolUse block of every
\* response of the run, the final response included, has exactly one
\* toolResult with its toolUseId in the conversation.
C10_EveryRequestAnsweredBeforeAnswer ==
  \A r \in RunIds :
    (pc[r] = "DONE" /\ HasStop(Last(responses[r]), "end_turn")) =>
      \A n \in 1..Len(responses[r]) :
        \A k \in 1..Len(RequestIds(responses[r][n].content)) :
          Cardinality(Answers(r, RequestIds(responses[r][n].content)[k])) = 1

(* ================= properties of the conversation state ================= *)
\* the message a conversation starts with
QueryMessage(r) == [role |-> "user", content |-> << [text |-> <<"query", r>>] >>]

IsPrefix(s, t) == Len(s) <= Len(t) /\ SubSeq(t, 1, Len(s)) = s

IsStrictPrefix(s, t) == Len(s) < Len(t) /\ SubSeq(t, 1, Len(s)) = s

\* C11: the conversation is append-only and sent in full: the messages
\* sent on model call n are a strict prefix of those sent on call n+1, the
\* first message is always the user's query, every step of a run leaves
\* the messages it had in place and unmodified, and what was sent stays a
\* prefix of the conversation.
C11_AppendOnlyFullResend ==
  /\ [] (\A r \in RunIds :
           /\ (pc[r] # "IDLE") =>
                (messages[r] # <<>> /\ messages[r][1] = QueryMessage(r))
           /\ \A n \in 1..Len(sent[r]) :
                /\ sent[r][n].messages # <<>>
                /\ sent[r][n].messages[1] = QueryMessage(r)
                /\ IsPrefix(sent[r][n].messages, messages[r])
           /\ \A n \in 1..(Len(sent[r]) - 1) :
                IsStrictPrefix(sent[r][n].messages, sent[r][n + 1].messages))
  /\ [][ \A r \in RunIds :
           /\ (pc[r] # "IDLE") => IsPrefix(messages[r], messages'[r])
           /\ (Len(sent'[r]) > Len(sent[r])) =>
                sent'[r] = Append(sent[r], [messages   |-> messages[r],
                                            toolConfig |-> Last(sent'[r]).toolConfig])
     ]_vars

\* a second model call that resends the query, the assistant message and
\* the tool results of the first turn
C11_Witness ==
  \E r \in RunIds :
    /\ Len(sent[r]) = 2
    /\ Len(sent[r][1].messages) = 1
    /\ Len(sent[r][2].messages) = 3
    /\ sent[r][2].messages[3].content # <<>>

\* the tool names a request advertises, in order
SentToolNames(req) ==
  [i \in 1..Len(req.toolConfig.tools) |-> req.toolConfig.tools[i].toolSpec.name]

\* C12: every model call of a run carries the whole conversation (the
\* query, then for every earlier response its assistant message and the
\* results message of its turn) and the same complete list of tool specs:
\* get_weather, get_time, calculator.
C12_EveryCallSendsAllToolsAndContext ==
  \A r \in RunIds : \A n \in 1..Len(sent[r]) :
    /\ SentToolNames(sent[r][n]) = <<"get_weather", "get_time", "calculator">>
    /\ sent[r][n].toolConfig = sent[r][1].toolConfig
    /\ Len(sent[r][n].messages) = 2 * n - 1
    /\ \A j \in 1..(n - 1) :
         /\ sent[r][n].messages[2 * j] =
              [role |-> "assistant", content |-> responses[r][j].content]
         /\ ResultIds(sent[r][n].messages[2 * j + 1].content) =
              RequestIds(responses[r][j].content)

\* a second model call, made after a turn with two tool executions
C12_Witness ==
  \E r \in RunIds :
    /\ Len(sent[r]) = 2
    /\ Len(executed[r]) = 2
    /\ Len(sent[r][2].toolConfig.tools) = 3
    /\ Len(sent[r][2].messages[3].content) = 2

\* C13: one cycle, one unit of the budget: in every step the iteration
\* counter equals the number of model calls started, it never decreases,
\* it goes up by one exactly when a model call is started, it stays within
\* max_iterations, and a step that executes a tool leaves it unchanged.
C13_IterationCountsModelCalls ==
  [][ \A r \in RunIds :
        /\ iteration'[r] = calls'[r]
        /\ iteration'[r] = Len(sent'[r])
        /\ iteration'[r] >= iteration[r]
        /\ iteration'[r] <= max_iterations'[r]
        /\ (Len(sent'[r]) # Len(sent[r])) <=> (iteration'[r] = iteration[r] + 1)
        /\ (Len(sent'[r]) = Len(sent[r])) <=> (iteration'[r] = iteration[r])
        /\ ToolStep(r) => iteration'[r] = iteration[r]
    ]_vars

\* two cycles with three tool executions between them
C13_Witness ==
  \E r \in RunIds :
    /\ iteration[r] = 2
    /\ calls[r] = 2
    /\ Len(executed[r]) = 3

\* what run r holds and has done
RunState(r) ==
  <<pc[r], messages[r], iteration[r], tool_results[r], outcome[r], calls[r],
    responses[r], executed[r], sent[r]>>

\* C14: the step that takes in an end_turn response appends nothing: the
\* conversation stays exactly the one sent with that model call, the run
\* is DONE, and a run that is DONE makes no model call, executes no tool
\* and changes nothing any more.
C14_FinalResponseAppendsNothing ==
  [][ \A r \in RunIds :
        /\ (Len(responses'[r]) > Len(responses[r])
              /\ HasStop(Last(responses'[r]), "end_turn")) =>
             /\ messages'[r] = messages[r]
             /\ messages'[r] = Last(sent'[r]).messages
             /\ pc'[r] = "DONE"
             /\ executed'[r] = executed[r]
             /\ tool_results'[r] = tool_results[r]
        /\ (pc[r] = "DONE") => RunState(r)' = RunState(r)
    ]_vars

\* a final response after one turn of tools: the conversation keeps its
\* three messages
C14_Witness ==
  \E r \in RunIds :
    /\ pc[r] = "DONE"
    /\ Len(responses[r]) = 2
    /\ HasStop(responses[r][2], "end_turn")
    /\ responses[r][2].content # <<>>
    /\ Len(messages[r]) = 3

Terminal == {"DONE", "FAILED"}

\* C15: every run that is started ends, in DONE with a returned value or
\* in FAILED with a raised error and never in both, and once it has ended
\* it makes no further transition.
C15_EveryRunTerminates ==
  /\ \A r \in RunIds : (pc[r] # "IDLE") ~> (pc[r] \in Terminal)
  /\ [] (\A r \in RunIds :
           /\ (pc[r] = "DONE") <=> (outcome[r].kind = "return")
           /\ (pc[r] = "FAILED") <=> (outcome[r].kind = "raise")
           /\ (pc[r] \notin Terminal) <=> (outcome[r] = NoOutcome))
  /\ [][ \A r \in RunIds : (pc[r] \in Terminal) => RunState(r)' = RunState(r) ]_vars

\* a run that used its whole budget on tools and ended in FAILED
C15_Witness ==
  \E r \in RunIds :
    /\ pc[r] = "FAILED"
    /\ iteration[r] = 2
    /\ Len(executed[r]) >= 2
    /\ outcome[r].kind = "raise"

\* the locals of run r
Locals(r) ==
  <<max_iterations[r], messages[r], iteration[r], assistant_content[r],
    blockIdx[r], tool_results[r], outcome[r]>>

\* every block of the message belongs to run r: the text of a user message
\* is the query of r, every toolUse and toolResult carries an id of r
OwnMessage(r, m) ==
  \A i \in 1..Len(m.content) :
    LET b == m.content[i] IN
      /\ ("text" \in DOMAIN b /\ m.role = "user") => b.text = <<"query", r>>
      /\ ("toolUse" \in DOMAIN b) => b.toolUse.toolUseId[4] = r
      /\ ("toolResult" \in DOMAIN b) => b.toolResult.toolUseId[4] = r

\* C16: two runs on one agent share no mutable state: what a run sends to
\* the model is its own query followed by its own assistant and results
\* messages and nothing of the other run, its iteration counter counts its
\* own model calls, and a step of one run leaves the locals and the
\* history of the other run unchanged.
C16_RunsShareNoState ==
  /\ [] (\A r \in RunIds :
           /\ iteration[r] = calls[r]
           /\ \A i \in 1..Len(messages[r]) : OwnMessage(r, messages[r][i])
           /\ \A n \in 1..Len(sent[r]) :
                /\ sent[r][n].messages[1] = QueryMessage(r)
                /\ Len(sent[r][n].messages) = 2 * n - 1
                /\ \A i \in 1..Len(sent[r][n].messages) :
                     OwnMessage(r, sent[r][n].messages[i])
                /\ \A j \in 1..(n - 1) :
                     sent[r][n].messages[2 * j].content = responses[r][j].content)
  /\ [][ \A r, q \in RunIds :
           (r # q /\ <<Locals(r), RunState(r)>>' # <<Locals(r), RunState(r)>>) =>
             <<Locals(q), RunState(q)>>' = <<Locals(q), RunState(q)>>
     ]_vars

\* both runs are in the middle of their second turn at the same time
C16_Witness ==
  /\ \A r \in RunIds :
       /\ pc[r] = "EXECUTING_TOOLS"
       /\ Len(sent[r]) = 2
       /\ Len(messages[r]) = 4
  /\ messages[1] # messages[2]

\* what a response is apart from the tools it asks for: its stop reason
\* and, block by block, its text or the fact that it is a toolUse
Shape(x) ==
  IF IsResponse(x)
    THEN [stopReason |-> x.stopReason,
          blocks |-> [i \in 1..Len(x.content) |->
                        IF IsToolUseBlock(x.content[i])
                          THEN <<"toolUse">> ELSE x.content[i].text]]
    ELSE [stopReason |-> "ClientError", blocks |-> <<>>]

Shapes(r) == [n \in 1..Len(responses[r]) |-> Shape(responses[r][n])]

Roles(r) == [i \in 1..Len(messages[r]) |-> messages[r][i].role]

\* the payloads of the toolResults run r has put into its conversation
ResultPayloads(r) ==
  { Payload(messages[r][m].content[i]) :
      <<m, i>> \in { <<m, i>> \in (1..Len(messages[r])) \X (1..MaxBlocks) :
                       /\ i <= Len(messages[r][m].content)
                       /\ "toolResult" \in DOMAIN messages[r][m].content[i] } }

HasFailedTool(r) == \E p \in ResultPayloads(r) : "error" \in DOMAIN p

\* run r is not at the loop head with its budget used up
Settled(r) == (pc[r] = "AWAITING_MODEL") => iteration[r] < max_iterations[r]

\* C17: tool failures are local: two runs with the same budget whose model
\* responses agree except for the tools asked for, and which have got
\* equally many tool calls back, stand at the same place with the same
\* number of model calls, the same roles in the conversation and the same
\* outcome, whichever of their tool calls failed.
C17_ToolFailureIsLocal ==
  ( /\ pc[1] # "IDLE" /\ pc[2] # "IDLE"
    /\ max_iterations[1] = max_iterations[2]
    /\ Shapes(1) = Shapes(2)
    /\ Len(executed[1]) = Len(executed[2])
    /\ Settled(1) /\ Settled(2) ) =>
      /\ pc[1] = pc[2]
      /\ calls[1] = calls[2]
      /\ iteration[1] = iteration[2]
      /\ Roles(1) = Roles(2)
      /\ Len(tool_results[1]) = Len(tool_results[2])
      /\ outcome[1] = outcome[2]

\* run 1 had a failing tool call, run 2 a good one, and both returned the
\* final answer of their second model call
C17_Witness ==
  /\ pc[1] = "DONE" /\ pc[2] = "DONE"
  /\ Shapes(1) = Shapes(2)
  /\ calls[1] = 2 /\ calls[2] = 2
  /\ HasFailedTool(1)
  /\ ~ HasFailedTool(2)
  /\ Len(executed[2]) = 1
  /\ outcome[1] = Return(<<"X">>)
  /\ outcome[2] = Return(<<"X">>)

\* the invocation ids of the tool_use responses 1..n of run r, in order
RECURSIVE AllRequestIds(_, _)
AllRequestIds(r, n) ==
  IF n = 0 THEN <<>>
  ELSE AllRequestIds(r, n - 1)
       \o (IF HasStop(responses[r][n], "tool_use")
             THEN RequestIds(responses[r][n].content) ELSE <<>>)

\* C18: the toolUse blocks of a turn are executed one at a time and once
\* each, in the order of the response: the executions of a run are, in
\* order, the requests of its tool_use responses; while a turn is under
\* way the results so far are those of the executions so far; and a later
\* model call is made only with the results of all requests of the turn
\* before it.
C18_ToolsRunOnceInOrder ==
  \A r \in RunIds :
    LET n == Len(responses[r]) IN
      /\ IsPrefix(executed[r], AllRequestIds(r, n))
      /\ \A i, j \in 1..Len(executed[r]) :
           (executed[r][i] = executed[r][j]) => i = j
      /\ (pc[r] # "EXECUTING_TOOLS") => executed[r] = AllRequestIds(r, n)
      /\ (pc[r] = "EXECUTING_TOOLS") =>
           /\ Len(executed[r]) < Len(AllRequestIds(r, n))
           /\ executed[r] =
                AllRequestIds(r, n - 1) \o ResultIds(tool_results[r])
           /\ CurrentToolUse(r).toolUseId =
                AllRequestIds(r, n)[Len(executed[r]) + 1]
      /\ \A k \in 2..Len(sent[r]) :
           /\ ResultIds(Last(sent[r][k].messages).content) =
                RequestIds(responses[r][k - 1].content)
           /\ IsPrefix(AllRequestIds(r, k - 1), executed[r])

\* a turn of two requests: the first has been executed and answered, the
\* second is being executed
C18_Witness ==
  \E r \in RunIds :
    /\ pc[r] = "EXECUTING_TOOLS"
    /\ Len(RequestIds(assistant_content[r])) = 2
    /\ Len(tool_results[r]) = 1
    /\ Len(executed[r]) = 1
    /\ blockIdx[r] = 2

\* the toolUse requests of a content, in order
ToolUses(content) ==
  LET uses == SelectSeq(content, IsToolUseBlock)
  IN [i \in 1..Len(uses) |-> uses[i].toolUse]

\* the payload says that the requested name is no tool of the executor
IsUnknownTool(payload, name) ==
  "error" \in DOMAIN payload /\ payload.error = <<"Unknown tool: ", name>>

\* the pairs (request, payload of its result) of the turns of run r whose
\* results message is in the conversation
Answered(r) ==
  { <<ToolUses(messages[r][m].content)[i], Payload(messages[r][m + 1].content[i])>> :
      <<m, i>> \in { <<m, i>> \in (1..Len(messages[r])) \X (1..MaxBlocks) :
                       /\ m < Len(messages[r])
                       /\ messages[r][m].role = "assistant"
                       /\ i <= Len(ToolUses(messages[r][m].content)) } }

\* C19: the names advertised to the model and the names the executor
\* dispatches agree: on every model call the advertised names are pairwise
\* distinct, and a requested name is answered "Unknown tool" exactly when
\* it is not among the advertised names.
C19_AdvertisedNamesAreDispatched ==
  \A r \in RunIds :
    /\ \A n \in 1..Len(sent[r]) :
         \A i, j \in 1..Len(SentToolNames(sent[r][n])) :
           (SentToolNames(sent[r][n])[i] = SentToolNames(sent[r][n])[j]) => i = j
    /\ \A n \in 1..Len(sent[r]) :
         { SentToolNames(sent[r][n])[i] : i \in 1..Len(SentToolNames(sent[r][n])) }
           = AdvertisedNames
    /\ \A a \in Answered(r) :
         IsUnknownTool(a[2], a[1].name) <=> a[1].name \notin AdvertisedNames

\* one turn asked for an advertised tool and for a name that is no tool;
\* the first was dispatched (here to a failure of its own), the second was
\* answered "Unknown tool"
C19_Witness ==
  \E r \in RunIds :
    /\ Len(sent[r]) >= 1
    /\ \E a \in Answered(r) :
         a[1].name = "get_time" /\ ~IsUnknownTool(a[2], a[1].name)
    /\ \E a \in Answered(r) :
         a[1].name = "get_forecast" /\ IsUnknownTool(a[2], a[1].name)

\* the roles of a list of messages go user, assistant, user, ...
Alternates(msgs) ==
  \A i \in 1..Len(msgs) :
    msgs[i].role = (IF i % 2 = 1 THEN "user" ELSE "assistant")

\* the number of tool_use responses among the first n responses of run r
RECURSIVE ToolUseTurns(_, _)
ToolUseTurns(r, n) ==
  IF n = 0 THEN 0
  ELSE ToolUseTurns(r, n - 1)
       + (IF HasStop(responses[r][n], "tool_use") THEN 1 ELSE 0)

\* C20: at every model call the conversation sent starts with the user's
\* query, alternates user, assistant, user, ... and ends with a user
\* message; the conversation of a run always alternates; it holds one
\* assistant message per tool_use response and none for any other
\* response; and outside the execution of a turn's tools every assistant
\* message is directly followed by one user message with the results of
\* exactly that turn's requests.
C20_RolesAlternate ==
  \A r \in RunIds :
    /\ \A n \in 1..Len(sent[r]) :
         LET ms == sent[r][n].messages IN
           /\ ms[1] = QueryMessage(r)
           /\ Alternates(ms)
           /\ Last(ms).role = "user"
    /\ Alternates(messages[r])
    /\ \A m \in 1..Len(messages[r]) :
         (messages[r][m].role = "assistant") =>
           /\ m \div 2 <= Len(responses[r])
           /\ HasStop(responses[r][m \div 2], "tool_use")
           /\ messages[r][m].content = responses[r][m \div 2].content
           /\ (m = Len(messages[r])) => (pc[r] = "EXECUTING_TOOLS")
           /\ (m < Len(messages[r])) =>
                /\ messages[r][m + 1].role = "user"
                /\ ResultIds(messages[r][m + 1].content) =
                     RequestIds(messages[r][m].content)
    /\ (pc[r] # "IDLE") =>
         Len(messages[r]) = 1 + 2 * ToolUseTurns(r, Len(responses[r]))
                              - (IF pc[r] = "EXECUTING_TOOLS" THEN 1 ELSE 0)

\* a model call made after a turn of tools: it sent the query, the
\* assistant message and the user message with the turn's results
C20_Witness ==
  \E r \in RunIds :
    /\ Len(sent[r]) = 2
    /\ Len(sent[r][2].messages) = 3
    /\ sent[r][2].messages[2].role = "assistant"
    /\ Last(sent[r][2].messages).role = "user"
    /\ Len(Last(sent[r][2].messages).content) = 2

\* the error run raises after the loop
BudgetError(r) ==
  Raise("RuntimeError", <<"Max iterations (", max_iterations[r], ") exceeded">>)

\* the model answered tool_use on the last iteration the budget allows
LastIterationAsksForTools(r) ==
  /\ max_iterations[r] >= 1
  /\ iteration[r] = max_iterations[r]
  /\ Len(responses[r]) = max_iterations[r]
  /\ HasStop(responses[r][max_iterations[r]], "tool_use")

\* C21: when the model answers tool_use on the last budgeted iteration,
\* the requested tools are executed and their results appended; run fails
\* with the budget error only after that; and no model call was sent the
\* results.  A run with a positive budget fails with the budget error in
\* no other way.
C21_LastTurnToolsRunBeforeBudgetError ==
  \A r \in RunIds :
    /\ LastIterationAsksForTools(r) =>
         LET max == max_iterations[r] IN
           /\ pc[r] \in {"EXECUTING_TOOLS", "AWAITING_MODEL", "FAILED"}
           /\ (pc[r] = "EXECUTING_TOOLS") => outcome[r] = NoOutcome
           /\ (pc[r] = "AWAITING_MODEL") => outcome[r] = NoOutcome
           /\ (pc[r] = "FAILED") => outcome[r] = BudgetError(r)
           /\ (pc[r] # "EXECUTING_TOOLS") =>
                /\ executed[r] = AllRequestIds(r, max)
                /\ Len(messages[r]) = 2 * max + 1
                /\ Last(messages[r]).role = "user"
                /\ ResultIds(Last(messages[r]).content) =
                     RequestIds(responses[r][max].content)
                /\ Len(sent[r]) = max
                /\ \A n \in 1..Len(sent[r]) :
                     Len(sent[r][n].messages) < Len(messages[r])
    /\ (outcome[r] = BudgetError(r) /\ max_iterations[r] >= 1) =>
         LastIterationAsksForTools(r)

\* the second of two budgeted calls asked for a tool; it was executed, its
\* result is the last message, and run has failed with the budget error
C21_Witness ==
  \E r \in RunIds :
    /\ pc[r] = "FAILED"
    /\ max_iterations[r] = 2
    /\ outcome[r] = BudgetError(r)
    /\ LastIterationAsksForTools(r)
    /\ Len(RequestIds(responses[r][2].content)) >= 1
    /\ Len(Last(messages[r]).content) >= 1

\* run called with any budget, the non-positive ones included
InitAnyBudget ==
  /\ callers = {1}
  /\ offered = SmallContents
  /\ budgets = -2..MaxBudget
  /\ InitLocals
  /\ NoEntry
  /\ NoHandler
  /\ NoWait
  /\ NoGateway

SpecAnyBudget == InitAnyBudget /\ [][Next]_vars

\* C22: a run started with max_iterations <= 0 makes no model call and
\* executes no tool: from the call on it is at the loop head with the
\* conversation holding the query alone, or it has failed with the
\* RuntimeError that names the budget.
C22_NoBudgetNoCall ==
  \A r \in RunIds :
    (pc[r] # "IDLE" /\ max_iterations[r] <= 0) =>
      /\ calls[r] = 0
      /\ iteration[r] = 0
      /\ sent[r] = <<>>
      /\ responses[r] = <<>>
      /\ executed[r] = <<>>
      /\ messages[r] = << QueryMessage(r) >>
      /\ \/ pc[r] = "AWAITING_MODEL" /\ outcome[r] = NoOutcome
         \/ /\ pc[r] = "FAILED"
            /\ outcome[r] =
                 Raise("RuntimeError",
                       <<"Max iterations (", max_iterations[r], ") exceeded">>)

\* a run with a negative budget has failed
C22_Witness ==
  \E r \in RunIds :
    /\ pc[r] = "FAILED"
    /\ max_iterations[r] < 0
    /\ outcome[r].kind = "raise"
    /\ outcome[r].exc = "RuntimeError"
    /\ calls[r] = 0

\* a content with a text block and a toolUse block
IsMixed(content) ==
  /\ \E i \in 1..Len(content) : "text" \in DOMAIN content[i]
  /\ \E i \in 1..Len(content) : "toolUse" \in DOMAIN content[i]

\* C23: for a tool_use response whose content mixes text and toolUse
\* blocks: the assistant message is the content as received; the tools
\* executed in the turn are its toolUse blocks and nothing else; the
\* results message holds toolResult blocks only, one per toolUse block;
\* run does not return on this turn, and an answer returned later is made
\* of the last response alone.
C23_MixedTurnKeepsTextOutOfResults ==
  \A r \in RunIds : \A n \in 1..Len(responses[r]) :
    (HasStop(responses[r][n], "tool_use") /\ IsMixed(responses[r][n].content)) =>
      LET content == responses[r][n].content
          last    == Last(responses[r])
      IN
        /\ messages[r][2 * n] = [role |-> "assistant", content |-> content]
        /\ TurnHandled(r, n) =>
             /\ \A i \in 1..Len(messages[r][2 * n + 1].content) :
                  DOMAIN messages[r][2 * n + 1].content[i] = {"toolResult"}
             /\ Len(messages[r][2 * n + 1].content) < Len(content)
             /\ ResultIds(messages[r][2 * n + 1].content) = RequestIds(content)
        /\ \A i \in 1..Len(executed[r]) :
             (executed[r][i][2] = n) =>
               \E j \in 1..Len(content) :
                 /\ IsToolUseBlock(content[j])
                 /\ content[j].toolUse.toolUseId = executed[r][i]
        /\ (n = Len(responses[r])) => outcome[r].kind # "return"
        /\ (outcome[r].kind = "return") =>
             outcome[r] \in
               { Return(TextOf(last.content)),
                 Return(<<"Unexpected stop reason: ", last.stopReason>>) }

\* the first response asked for a tool and said "X"; the turn was handled
\* and the second response ended the run with the answer "Y"
C23_Witness ==
  \E r \in RunIds :
    /\ pc[r] = "DONE"
    /\ Len(responses[r]) = 2
    /\ HasStop(responses[r][1], "tool_use")
    /\ IsMixed(responses[r][1].content)
    /\ responses[r][1].content[1] = [text |-> <<"X">>]
    /\ messages[r][2].content = responses[r][1].content
    /\ Len(messages[r][3].content) = 1
    /\ HasStop(responses[r][2], "end_turn")
    /\ outcome[r] = Return(<<"Y">>)

(* ------------- the entrypoint of the two deployed agent modules --------- *)
\* a str is the sequence of its characters
TrueStr == <<"t", "r", "u", "e">>

FalseStr == <<"f", "a", "l", "s", "e">>

\* an ARN with six fields, the last one "g/i"
GoodArn == <<"a", ":", "w", ":", "b", ":", "r", ":", "n", ":", "g", "/", "i">>

\* the values USE_GATEWAY may have: unset, or a string
UseGatewayValues ==
  { None, Some(TrueStr), Some(<<"T", "R", "U", "E">>), Some(<<"T", "r", "u", "e">>),
    Some(FalseStr), Some(<<"1">>), Some(<<>>), Some(<<" ", "t", "r", "u", "e">>) }

\* the values GATEWAY_ARN may have: unset, empty, an ARN, not an ARN
GatewayArnValues == { None, Some(<<>>), Some(GoodArn), Some(<<"g", "w">>) }

\* os.getenv(key): an optional str, None when the variable is unset
getenv(key) == environ[key]

\* os.getenv(key, default)
getenv_default(key, default) ==
  IF environ[key] = None THEN default ELSE environ[key][1]

\* str.lower on the letters that occur
LowerChar(c) ==
  CASE c = "T" -> "t" [] c = "R" -> "r" [] c = "U" -> "u" [] c = "E" -> "e"
    [] OTHER -> c

lower(str) == [i \in 1..Len(str) |-> LowerChar(str[i])]

\* str.split(sep)
RECURSIVE split(_, _)
split(str, sep) ==
  IF str = <<>> THEN << <<>> >>
  ELSE LET rest == split(Tail(str), sep) IN
         IF Head(str) = sep
           THEN << <<>> >> \o rest
           ELSE << <<Head(str)>> \o rest[1] >> \o Tail(rest)

\* os.getenv("USE_GATEWAY", "false").lower() == "true"
use_gateway == lower(getenv_default("USE_GATEWAY", FalseStr)) = TrueStr

\* _get_gateway_endpoint: parts[3] and parts[5].split("/")[1] of the ARN;
\* gateway_arn is an optional str, and None has no split
get_gateway_endpoint(gateway_arn) ==
  IF gateway_arn = None
    THEN Raise("AttributeError", <<"'NoneType' object has no attribute 'split'">>)
  ELSE LET parts == split(gateway_arn[1], ":") IN
    IF Len(parts) < 6
      THEN Raise("IndexError", <<"list index out of range">>)
    ELSE LET region == parts[4]
             ids    == split(parts[6], "/")
         IN IF Len(ids) < 2
              THEN Raise("IndexError", <<"list index out of range">>)
              ELSE Return(<<"https://", ids[2], ".gateway.bedrock-agentcore.",
                            region, ".amazonaws.com">>)

\* "not gateway_arn": unset or empty
NotGatewayArn == getenv("GATEWAY_ARN") \in {None, Some(<<>>)}

McpModule == "weather_time_agent"

DirectModule == "weather_time_agent_gateway"

\* _initialize_agent with USE_GATEWAY not "true": the local tools are
\* created and given to Agent
InitializeAgentLocal ==
  /\ entry_pc = "START"
  /\ ~ use_gateway
  /\ tools' = "local"
  /\ entry_pc' = "READY"
  /\ UNCHANGED <<module, environ, mcp_client, contacted, entry_outcome>>
  /\ UNCHANGED outsideEntry

\* weather_time_agent_gateway._initialize_agent in Gateway mode: ValueError
\* without an ARN, else tools that call the Gateway when they are used
InitializeAgentDirect ==
  /\ entry_pc = "START"
  /\ module = DirectModule
  /\ use_gateway
  /\ IF NotGatewayArn
       THEN /\ entry_outcome' =
                 Raise("ValueError", <<"USE_GATEWAY is enabled but GATEWAY_ARN environment variable is not set">>)
            /\ entry_pc' = "FAILED"
            /\ UNCHANGED tools
       ELSE /\ tools' = "gateway"
            /\ entry_pc' = "READY"
            /\ UNCHANGED entry_outcome
  /\ UNCHANGED <<module, environ, mcp_client, contacted>>
  /\ UNCHANGED outsideEntry

\* weather_time_agent._create_mcp_client, called by _initialize_agent in
\* Gateway mode: every exception in it is caught and None is returned; the
\* imports, the token request and the connection are outside calls that
\* succeed or fail
CreateMcpClient ==
  /\ entry_pc = "START"
  /\ module = McpModule
  /\ use_gateway
  /\ \E imported \in BOOLEAN, access_token \in {None, Some("token")},
        connected \in BOOLEAN :
       LET gateway_endpoint == get_gateway_endpoint(getenv("GATEWAY_ARN")) IN
         IF ~ imported \/ gateway_endpoint.kind = "raise"
           THEN /\ mcp_client' = None
                /\ UNCHANGED contacted
           ELSE /\ contacted' = TRUE
                /\ mcp_client' =
                     IF connected
                       THEN Some([url     |-> gateway_endpoint.value \o <<"/mcp">>,
                                  headers |-> access_token])
                       ELSE None
  /\ entry_pc' = "MCP_CLIENT_RETURNED"
  /\ UNCHANGED <<module, environ, tools, entry_outcome>>
  /\ UNCHANGED outsideEntry

\* a slip: without an MCP client the local tools are used
InitializeAgentMcp_FallsBack ==
  /\ entry_pc = "MCP_CLIENT_RETURNED"
  /\ IF mcp_client = None
       THEN /\ tools' = "local"
            /\ entry_pc' = "READY"
            /\ UNCHANGED entry_outcome
       ELSE \E listed \in BOOLEAN :
              IF listed
                THEN /\ tools' = "gateway"
                     /\ entry_pc' = "READY"
                     /\ UNCHANGED entry_outcome
                ELSE /\ entry_outcome' = Raise("MCPClientError", <<"list_tools_sync">>)
                     /\ entry_pc' = "FAILED"
                     /\ UNCHANGED tools
  /\ UNCHANGED <<module, environ, mcp_client, contacted>>
  /\ UNCHANGED outsideEntry

\* weather_time_agent._initialize_agent after _create_mcp_client returned:
\* RuntimeError without a client, else the tools are listed (a call that
\* succeeds or raises) and given to Agent
InitializeAgentMcp ==
  /\ entry_pc = "MCP_CLIENT_RETURNED"
  /\ IF mcp_client = None
       THEN /\ entry_outcome' =
                 Raise("RuntimeError", <<"Failed to create MCP client for Gateway connection">>)
            /\ entry_pc' = "FAILED"
            /\ UNCHANGED tools
       ELSE \E listed \in BOOLEAN :
              IF listed
                THEN /\ tools' = "gateway"
                     /\ entry_pc' = "READY"
                     /\ UNCHANGED entry_outcome
                ELSE /\ entry_outcome' = Raise("MCPClientError", <<"list_tools_sync">>)
                     /\ entry_pc' = "FAILED"
                     /\ UNCHANGED tools
  /\ UNCHANGED <<module, environ, mcp_client, contacted>>
  /\ UNCHANGED outsideEntry

\* strands_agent_bedrock after _initialize_agent: the agent answers the
\* prompt; with Gateway tools the model may have them called
InvokeAgent ==
  /\ entry_pc = "READY"
  /\ \E tool_called \in BOOLEAN :
       contacted' = (contacted \/ (tools = "gateway" /\ tool_called))
  /\ entry_outcome' = Return(<<"response_text">>)
  /\ entry_pc' = "ANSWERED"
  /\ UNCHANGED <<module, environ, mcp_client, tools>>
  /\ UNCHANGED outsideEntry

NextEntry ==
  \/ InitializeAgentLocal
  \/ InitializeAgentDirect
  \/ CreateMcpClient
  \/ InitializeAgentMcp
  \/ InvokeAgent

\* run is not called
NoRun ==
  /\ callers = {}
  /\ offered = {}
  /\ budgets = {}
  /\ InitLocals

\* the entrypoint of either module is invoked, in any environment
InitEntry ==
  /\ module \in {McpModule, DirectModule}
  /\ environ \in [USE_GATEWAY : UseGatewayValues, GATEWAY_ARN : GatewayArnValues]
  /\ entry_pc = "START"
  /\ mcp_client = None
  /\ tools = "none"
  /\ contacted = FALSE
  /\ entry_outcome = NoOutcome
  /\ NoRun
  /\ NoHandler
  /\ NoWait
  /\ NoGateway

SpecEntry == InitEntry /\ [][NextEntry]_vars

\* USE_GATEWAY is set to "true" in any letter case
GatewayWanted ==
  environ.USE_GATEWAY \in
    { Some(<<a, b, c, d>>) :
        <<a, b, c, d>> \in {"t", "T"} \X {"r", "R"} \X {"u", "U"} \X {"e", "E"} }

\* GATEWAY_ARN is unset
ArnUnset == environ.GATEWAY_ARN = None

\* C24: with USE_GATEWAY "true" in any case the local tools are never
\* used; the agent is then ready only with Gateway tools, in the MCP module
\* only with a client; with GATEWAY_ARN unset, or with no client returned,
\* initialization ends in a raised error.  With USE_GATEWAY unset or
\* anything else, only the local tools are used and the Gateway is never
\* contacted.
C24_GatewayModeNeverFallsBack ==
  /\ GatewayWanted =>
       /\ tools # "local"
       /\ (entry_pc \in {"READY", "ANSWERED"}) =>
            /\ tools = "gateway"
            /\ ~ ArnUnset
            /\ (module = McpModule) => (mcp_client # None /\ contacted)
       /\ (ArnUnset \/ (entry_pc = "FAILED" /\ mcp_client = None)) =>
            /\ entry_pc \in {"START", "MCP_CLIENT_RETURNED", "FAILED"}
            /\ (entry_pc = "FAILED") =>
                 /\ entry_outcome.kind = "raise"
                 /\ entry_outcome.exc \in {"ValueError", "RuntimeError"}
       /\ (entry_pc = "MCP_CLIENT_RETURNED" /\ mcp_client = None) =>
            entry_outcome = NoOutcome
  /\ (entry_pc # "OFF" /\ ~ GatewayWanted) =>
       /\ tools \in {"none", "local"}
       /\ ~ contacted
       /\ mcp_client = None
       /\ entry_pc \in {"START", "READY", "ANSWERED"}
       /\ (entry_pc # "START") => tools = "local"

\* USE_GATEWAY=TRUE without GATEWAY_ARN: initialization has failed and no
\* tools were set up
C24_Witness ==
  /\ environ.USE_GATEWAY = Some(<<"T", "R", "U", "E">>)
  /\ ArnUnset
  /\ entry_pc = "FAILED"
  /\ entry_outcome.kind = "raise"
  /\ tools = "none"

(* ---------------------- the tool Lambda handlers ------------------------ *)
\* Python values, with the type that isinstance and the operators look at
PyNone == [type |-> "NoneType"]

PyStr(chars) == [type |-> "str", val |-> chars]

PyNum(n) == [type |-> "int", val |-> n]

PyList == [type |-> "list"]

\* a value json.dumps has no encoding for
PyObject == [type |-> "object"]

\* a key a dict does not have
Absent == [type |-> "absent"]

\* a dict: its keys are those whose item is not Absent
PyDict(items) == [type |-> "dict", items |-> items]

\* the text of a JSON document, and a text that is no JSON
JsonText(v) == PyStr(<<"json", v>>)

Garbage == PyStr(<<"{", "c", "i", "t", "y">>)

\* e is an instance of ValueError: json.JSONDecodeError is a subclass
IsValueError(e) == e.exc \in {"ValueError", "JSONDecodeError"}

\* json.loads
json_loads(text) ==
  IF Len(text.val) = 2 /\ text.val[1] = "json"
    THEN Return(text.val[2])
    ELSE Raise("JSONDecodeError", <<"Expecting property name enclosed in double quotes">>)

\* json.dumps
json_dumps(v) ==
  IF v.type = "object"
    THEN Raise("TypeError", <<"Object is not JSON serializable">>)
    ELSE Return(<<"json", v>>)

\* d.get(key, default); only a dict has get
dict_get(d, key, default) ==
  IF d.type # "dict"
    THEN Raise("AttributeError", <<"object has no attribute 'get'">>)
  ELSE IF key \in DOMAIN d.items /\ d.items[key] # Absent
    THEN Return(d.items[key])
    ELSE Return(default)

\* "not v"
Falsy(v) ==
  \/ v.type = "NoneType"
  \/ v.type = "str" /\ v.val = <<>>
  \/ v.type = "int" /\ v.val = 0

Digits ==
  [c \in {"0", "1", "2", "3", "4", "5", "6", "7", "8", "9"} |->
     CASE c = "0" -> 0 [] c = "1" -> 1 [] c = "2" -> 2 [] c = "3" -> 3
       [] c = "4" -> 4 [] c = "5" -> 5 [] c = "6" -> 6 [] c = "7" -> 7
       [] c = "8" -> 8 [] c = "9" -> 9]

RECURSIVE DigitsValue(_)
DigitsValue(chars) ==
  IF chars = <<>> THEN 0
  ELSE 10 * DigitsValue(SubSeq(chars, 1, Len(chars) - 1)) + Digits[chars[Len(chars)]]

\* float(v) for numbers and for strings of digits
to_float(v) ==
  IF v.type = "int" THEN Return(v.val)
  ELSE IF v.type = "str"
    THEN IF v.val # <<>> /\ \A i \in 1..Len(v.val) : v.val[i] \in DOMAIN Digits
           THEN Return(DigitsValue(v.val))
           ELSE Raise("ValueError", <<"could not convert string to float">>)
  ELSE Raise("TypeError", <<"float() argument must be a string or a real number">>)

\* the response dict of a handler
Response(statusCode, body) ==
  [statusCode |-> statusCode,
   headers    |-> [ContentType |-> "application/json"],
   body       |-> body]

ErrorBody(message) == <<"json", PyDict([error |-> PyStr(message)])>>

\* lines 40-42: the body of the event, parsed when it is a str
parse_body(ev) ==
  LET body == dict_get(ev, "body", JsonText(PyDict(<<>>))) IN
    IF body.kind = "raise" THEN body
    ELSE IF body.value.type = "str" THEN json_loads(body.value)
    ELSE body

\* the call of the tool a handler has come to
Call(args) == [kind |-> "call", args |-> args]

\* weather_lambda and time_lambda, lines 40-56, up to the call of the tool
validate_one(key, ev) ==
  LET body == parse_body(ev) IN
    IF body.kind = "raise" THEN body
    ELSE LET param == dict_get(body.value, key, PyNone) IN
      IF param.kind = "raise" THEN param
      ELSE IF Falsy(param.value)
        THEN Return(Response(400, ErrorBody(<<"Missing required parameter: ", key>>)))
        ELSE Call(<<param.value>>)

\* calculator_lambda, lines 40-68, up to the call of the tool
validate_calculator(ev) ==
  LET body == parse_body(ev) IN
    IF body.kind = "raise" THEN body
    ELSE LET operation == dict_get(body.value, "operation", PyNone)
             a         == dict_get(body.value, "a", PyNone)
             b         == dict_get(body.value, "b", PyNone)
         IN
      IF operation.kind = "raise" THEN operation
      ELSE IF Falsy(operation.value)
        THEN Return(Response(400, ErrorBody(<<"Missing required parameter: ", "operation">>)))
      ELSE IF a.value = PyNone
        THEN Return(Response(400, ErrorBody(<<"Missing required parameter: ", "a">>)))
      ELSE LET fa == to_float(a.value) IN
        IF fa.kind = "raise" THEN fa
        ELSE IF b.value = PyNone
          THEN Call(<<operation.value, fa.value, None>>)
          ELSE LET fb == to_float(b.value) IN
                 IF fb.kind = "raise" THEN fb
                 ELSE Call(<<operation.value, fa.value, Some(fb.value)>>)

validate(name, ev) ==
  IF name = "weather" THEN validate_one("city", ev)
  ELSE IF name = "time" THEN validate_one("timezone", ev)
  ELSE validate_calculator(ev)

\* a slip: there is no "except Exception" clause
except_clauses_ValueErrorOnly(x) ==
  IF x.kind = "raise" /\ IsValueError(x)
    THEN Return(Response(400, ErrorBody(x.msg)))
    ELSE x

\* the two except clauses of a handler: 400 with str(e) for a ValueError,
\* 500 with a fixed text for every other Exception
except_clauses(x) ==
  IF x.kind # "raise" THEN x
  ELSE IF IsValueError(x)
    THEN Return(Response(400, ErrorBody(x.msg)))
    ELSE Return(Response(500, ErrorBody(<<"Internal server error">>)))

\* what the tool of a Lambda may do: return a dict, return something that
\* has no JSON encoding, raise a ValueError, raise something else
ToolOutcomes ==
  { Return(PyDict([result |-> PyNum(3)])),
    Return(PyObject),
    Raise("ValueError", <<"Unknown operation">>),
    Raise("KeyError", <<"'temperature'">>) }

\* the try block up to the call of the tool, and the except clauses for
\* what it raised
HandlerValidates ==
  /\ lambda_pc = "INVOKED"
  /\ LET v == validate(lambda_name, event) IN
       IF v.kind = "call"
         THEN /\ tool_args' = v.args
              /\ lambda_pc' = "CALLING_TOOL"
              /\ UNCHANGED response
         ELSE /\ response' = except_clauses(v)
              /\ lambda_pc' =
                   IF except_clauses(v).kind = "raise" THEN "RAISED" ELSE "RETURNED"
              /\ UNCHANGED tool_args
  /\ UNCHANGED <<lambda_name, event, tool_calls, tool_outcome>>
  /\ UNCHANGED outsideHandler

\* the tool returns or raises; its result is encoded into the 200 response;
\* the except clauses for what was raised
ToolCompletes ==
  /\ lambda_pc = "CALLING_TOOL"
  /\ \E o \in ToolOutcomes :
       LET body == IF o.kind = "raise" THEN o ELSE json_dumps(o.value)
           r    == except_clauses(IF body.kind = "raise"
                                    THEN body
                                    ELSE Return(Response(200, body.value)))
       IN
         /\ tool_outcome' = o
         /\ response' = r
         /\ lambda_pc' = IF r.kind = "raise" THEN "RAISED" ELSE "RETURNED"
  /\ tool_calls' = tool_calls + 1
  /\ UNCHANGED <<lambda_name, event, tool_args>>
  /\ UNCHANGED outsideHandler

NextHandler == HandlerValidates \/ ToolCompletes

\* the dicts with some of the given keys, each with one of its values
Dicts(values) ==
  { PyDict(items) : items \in [DOMAIN values -> UNION { values[k] : k \in DOMAIN values } \cup {Absent}] }

BodyDicts(name) ==
  LET values ==
        IF name = "weather"
          THEN [city |-> {PyNone, PyStr(<<>>), PyStr(<<"S">>), PyNum(0), PyNum(7)}]
        ELSE IF name = "time"
          THEN [timezone |-> {PyNone, PyStr(<<>>), PyStr(<<"U", "T", "C">>), PyNum(0), PyList}]
        ELSE [operation |-> {PyNone, PyStr(<<>>), PyStr(<<"a", "d", "d">>)},
              a         |-> {PyNone, PyNum(0), PyNum(2), PyStr(<<"3">>), PyStr(<<"x">>), PyList},
              b         |-> {PyNone, PyNum(1), PyStr(<<"x">>)}]
  IN { d \in Dicts(values) :
         \A k \in DOMAIN values : d.items[k] \in values[k] \cup {Absent} }

\* the events a Lambda is invoked with: no dict, no body, a body that is
\* null, no JSON, a JSON list, a dict, or the JSON text of a dict
Events(name) ==
  { PyNone,
    PyDict([body |-> Absent]),
    PyDict([body |-> PyNone]),
    PyDict([body |-> Garbage]),
    PyDict([body |-> JsonText(PyList)]) }
  \cup { PyDict([body |-> d]) : d \in BodyDicts(name) }
  \cup { PyDict([body |-> JsonText(d)]) : d \in BodyDicts(name) }

InitHandler ==
  /\ lambda_name \in {"weather", "time", "calculator"}
  /\ event \in Events(lambda_name)
  /\ lambda_pc = "INVOKED"
  /\ tool_args = None
  /\ tool_calls = 0
  /\ tool_outcome = NoOutcome
  /\ response = NoOutcome
  /\ NoRun
  /\ NoEntry
  /\ NoWait
  /\ NoGateway

SpecHandler == InitHandler /\ [][NextHandler]_vars

\* the required parameters of the tools
RequiredParameters(name) ==
  IF name = "weather" THEN {"city"}
  ELSE IF name = "time" THEN {"timezone"}
  ELSE {"operation", "a"}

\* the event carries a dict of parameters, as a dict or as JSON text (no
\* body at all counts as the empty dict)
HasParameters ==
  /\ event.type = "dict"
  /\ \/ event.items.body = Absent
     \/ event.items.body.type = "dict"
     \/ /\ event.items.body.type = "str"
        /\ Len(event.items.body.val) = 2
        /\ event.items.body.val[1] = "json"
        /\ event.items.body.val[2].type = "dict"

Parameters ==
  IF event.items.body = Absent THEN <<>>
  ELSE IF event.items.body.type = "dict" THEN event.items.body.items
  ELSE event.items.body.val[2].items

\* a required parameter is not given, or given as null
MissingRequired ==
  /\ HasParameters
  /\ \E k \in RequiredParameters(lambda_name) :
       \/ k \notin DOMAIN Parameters
       \/ Parameters[k] \in {Absent, PyNone}

InternalServerError == ErrorBody(<<"Internal server error">>)

\* C25: a handler never raises and always comes to a response, with
\* statusCode 200, 400 or 500; with a required parameter missing the tool
\* is not called and the response is 400; a ValueError, of the tool or of
\* the parsing, gives 400; every other exception gives 500 with the fixed
\* body; 200 is given only with the encoded result the tool returned.
C25_HandlersAreTotal ==
  /\ lambda_pc # "RAISED"
  /\ tool_calls <= 1
  /\ (lambda_pc \in {"INVOKED", "CALLING_TOOL"}) => ENABLED NextHandler
  /\ (lambda_pc = "CALLING_TOOL") => (tool_calls = 0 /\ response = NoOutcome)
  /\ (lambda_pc # "OFF" /\ MissingRequired) =>
       /\ lambda_pc \in {"INVOKED", "RETURNED"}
       /\ tool_calls = 0
       /\ (lambda_pc = "RETURNED") => response.value.statusCode = 400
  /\ (lambda_pc = "RETURNED") =>
       /\ response.kind = "return"
       /\ response.value.statusCode \in {200, 400, 500}
       /\ (tool_calls = 0) => response.value.statusCode # 200
       /\ (event.type = "dict" /\ event.items.body = Garbage) =>
            response.value.statusCode = 400
       /\ (tool_calls = 1 /\ tool_outcome.kind = "raise") =>
            IF tool_outcome.exc = "ValueError"
              THEN response.value = Response(400, ErrorBody(tool_outcome.msg))
              ELSE response.value = Response(500, InternalServerError)
       /\ (response.value.statusCode = 500) =>
            response.value.body = InternalServerError
       /\ (response.value.statusCode = 200) =>
            /\ tool_calls = 1
            /\ tool_outcome.kind = "return"
            /\ response.value.body = <<"json", tool_outcome.value>>

\* the calculator's tool raised something that is no ValueError, and the
\* handler answered 500 with the fixed body
C25_Witness ==
  /\ lambda_name = "calculator"
  /\ lambda_pc = "RETURNED"
  /\ tool_calls = 1
  /\ tool_outcome = Raise("KeyError", <<"'temperature'">>)
  /\ response.value.statusCode = 500
  /\ response.value.body = InternalServerError

(* ------------------- deploy_agent._wait_for_agent_ready ----------------- *)
\* line 149
wait_max_attempts == 60

\* line 152
end_status == <<"READY", "CREATE_FAILED", "DELETE_FAILED", "UPDATE_FAILED">>

\* "status in end_status"
InEndStatus(st) == \E i \in 1..Len(end_status) : end_status[i] = st

\* what agentcore_runtime.status() may do: return a response whose endpoint
\* has a status, or has none, or raise
StatusResults ==
  { Return([endpoint |-> [status |-> st]]) :
      st \in {"READY", "CREATE_FAILED", "DELETE_FAILED", "UPDATE_FAILED",
              "CREATING", "UPDATING"} }
  \cup { Return([endpoint |-> [id |-> "agent"]]),
         Raise("ClientError", <<"ThrottlingException">>) }

\* line 157: status_response.endpoint.get('status', 'UNKNOWN')
endpoint_status(status_response) ==
  IF "status" \in DOMAIN status_response.endpoint
    THEN status_response.endpoint.status
    ELSE "UNKNOWN"

\* a slip: "except BaseException", which also catches the SystemExit of
\* sys.exit
except_Exception_CatchesExit(exc) == TRUE

\* line 172: "except Exception" catches exc; SystemExit is no Exception
except_Exception(exc) == exc # "SystemExit"

\* lines 154-175: one pass of the while loop: the status is polled; READY
\* returns, another end status exits with 1, anything else and every
\* exception sleeps and counts the attempt
PollAgentStatus ==
  /\ wait_pc = "POLLING"
  /\ wait_attempt < wait_max_attempts
  /\ polls' = polls + 1
  /\ \E status_response \in StatusResults :
       IF status_response.kind = "raise"
         THEN /\ wait_attempt' = wait_attempt + 1
              /\ UNCHANGED <<wait_pc, wait_status, exit_code>>
         ELSE LET st == endpoint_status(status_response.value) IN
                /\ wait_status' = Some(st)
                /\ IF InEndStatus(st)
                     THEN IF st = "READY"
                            THEN /\ wait_pc' = "RETURNED"
                                 /\ UNCHANGED <<wait_attempt, exit_code>>
                          ELSE IF except_Exception("SystemExit")
                            THEN /\ wait_attempt' = wait_attempt + 1
                                 /\ UNCHANGED <<wait_pc, exit_code>>
                            ELSE /\ wait_pc' = "EXITED"
                                 /\ exit_code' = Some(1)
                                 /\ UNCHANGED wait_attempt
                     ELSE /\ wait_attempt' = wait_attempt + 1
                          /\ UNCHANGED <<wait_pc, exit_code>>
  /\ UNCHANGED outsideWait

\* lines 154 and 177-178: the while condition is false
WaitTimesOut ==
  /\ wait_pc = "POLLING"
  /\ ~ (wait_attempt < wait_max_attempts)
  /\ wait_pc' = "EXITED"
  /\ exit_code' = Some(1)
  /\ UNCHANGED <<wait_attempt, wait_status, polls>>
  /\ UNCHANGED outsideWait

NextWait == PollAgentStatus \/ WaitTimesOut

\* _wait_for_agent_ready is called
InitWait ==
  /\ wait_pc = "POLLING"
  /\ wait_attempt = 0
  /\ wait_status = None
  /\ polls = 0
  /\ exit_code = None
  /\ NoRun
  /\ NoEntry
  /\ NoHandler
  /\ NoGateway

\* agentcore_runtime.status and time.sleep come back
SpecWait == InitWait /\ [][NextWait]_vars /\ WF_vars(NextWait)

FailedStatuses == {"CREATE_FAILED", "DELETE_FAILED", "UPDATE_FAILED"}

\* the function has ended by the status a poll observed
EndedByStatus ==
  wait_pc = "RETURNED" \/ (wait_pc = "EXITED" /\ wait_status # None /\ wait_status[1] \in FailedStatuses)

WaitInvariant ==
  /\ polls <= 60
  /\ polls = wait_attempt + (IF EndedByStatus THEN 1 ELSE 0)
  /\ (wait_pc = "RETURNED") => (wait_status = Some("READY") /\ exit_code = None)
  /\ (wait_status = Some("READY")) => wait_pc = "RETURNED"
  /\ (wait_status # None /\ wait_status[1] \in FailedStatuses) =>
       (wait_pc = "EXITED" /\ exit_code = Some(1))
  /\ (wait_pc = "EXITED") =>
       /\ exit_code = Some(1)
       /\ \/ wait_status # None /\ wait_status[1] \in FailedStatuses
          \/ polls = 60 /\ wait_attempt = 60
  /\ (wait_pc = "POLLING") => exit_code = None

\* a poll that neither returned READY nor a failed status, an exception
\* included, uses up one attempt and the loop goes on
WaitPollIsNotFatal ==
  (/\ wait_pc = "POLLING"
   /\ polls' = polls + 1
   /\ ~ (wait_status' # None /\ wait_status'[1] \in FailedStatuses \cup {"READY"}))
    => (wait_pc' = "POLLING" /\ wait_attempt' = wait_attempt + 1 /\ exit_code' = None)

\* C26: _wait_for_agent_ready polls at most 60 times and always ends; it
\* returns only with READY observed by its last poll; it exits with 1 at
\* the poll that observes CREATE_FAILED, DELETE_FAILED or UPDATE_FAILED,
\* and after 60 polls none of which observed an end status; a poll that
\* raised uses up one attempt and does not end the function.
C26_WaitForAgentReadyEnds ==
  /\ [] WaitInvariant
  /\ [][WaitPollIsNotFatal]_vars
  /\ <> (wait_pc \in {"RETURNED", "EXITED"})

\* 60 polls went by without an end status and the function exited with 1
C26_Witness ==
  /\ wait_pc = "EXITED"
  /\ exit_code = Some(1)
  /\ polls = 60
  /\ wait_status = Some("CREATING")

(* -------------------- configure_gateway._create_gateway ----------------- *)
\* line 194
gateway_max_attempts == 60

\* the message of an exception is the sequence of its parts
InStr(part, e) == \E i \in 1..Len(e.msg) : e.msg[i] = part

\* str(e).lower(), on the parts that occur
LowerPart(part) == IF part = "Already Exists" THEN "already exists" ELSE part

InLowerStr(part, e) == \E i \in 1..Len(e.msg) : LowerPart(e.msg[i]) = part

\* the errors a call of the control plane may raise
Throttling ==
  Raise("ClientError", <<"An error occurred (", "ThrottlingException", ")">>)

Conflict ==
  Raise("ClientError", <<"An error occurred (", "ConflictException", "): ",
                         "Already Exists">>)

AccessDenied ==
  Raise("ClientError", <<"An error occurred (", "AccessDeniedException", ")">>)

\* the statuses a gateway may be reported in; None: the response has no
\* status
GatewayStatuses ==
  { Some(st) : st \in {"CREATING", "UPDATING", "ACTIVE", "READY", "FAILED",
                        "DELETING", "DELETED"} } \cup { None }

\* lines 216-221 and 240-245
GatewayInfo == [gateway_id |-> "gw", gateway_arn |-> "arn", gateway_url |-> "url",
                gateway_name |-> "name"]

\* lines 223-249: the except clause of the function: an exception that
\* says the gateway exists leads to the lookup of that gateway, every other
\* exception is raised again
OuterExcept(e) ==
  IF InLowerStr("already exists", e) \/ InStr("ConflictException", e)
    THEN [pc |-> "LISTING", outcome |-> NoOutcome]
    ELSE [pc |-> "RAISED", outcome |-> e]

\* lines 174-189: create_gateway returns or raises
CreateGateway ==
  /\ gw_pc = "CREATING"
  /\ \E created \in {Return(GatewayInfo), Conflict, AccessDenied} :
       IF created.kind = "raise"
         THEN /\ gw_pc' = OuterExcept(created).pc
              /\ gw_outcome' = OuterExcept(created).outcome
         ELSE /\ gw_pc' = "POLLING"
              /\ UNCHANGED gw_outcome
  /\ gw_attempt' = 0
  /\ UNCHANGED <<gw_status, gw_polls, gw_observed>>
  /\ UNCHANGED outsideGateway

\* lines 195-212, 216-221: one pass of the for loop: ACTIVE or READY leaves
\* the loop and the information is returned; FAILED, DELETING or DELETED
\* raises ValueError; a throttled call and every other status sleep; any
\* other exception is raised again, into the except clause of the function
PollGateway ==
  /\ gw_pc = "POLLING"
  /\ gw_attempt < gateway_max_attempts
  /\ gw_polls' = gw_polls + 1
  /\ \E gateway_details \in
          { Return([status |-> st]) : st \in GatewayStatuses }
          \cup {Throttling, Conflict, AccessDenied} :
       IF gateway_details.kind = "raise"
         THEN /\ UNCHANGED <<gw_status, gw_observed>>
              /\ IF InStr("ThrottlingException", gateway_details)
                   THEN /\ gw_attempt' = gw_attempt + 1
                        /\ UNCHANGED <<gw_pc, gw_outcome>>
                   ELSE /\ gw_pc' = OuterExcept(gateway_details).pc
                        /\ gw_outcome' = OuterExcept(gateway_details).outcome
                        /\ UNCHANGED gw_attempt
         ELSE LET st == gateway_details.value.status IN
                /\ gw_status' = st
                /\ gw_observed' = gw_observed \cup {st}
                /\ IF st \in {Some("ACTIVE"), Some("READY")}
                     THEN /\ gw_pc' = "RETURNED"
                          /\ gw_outcome' = Return(GatewayInfo)
                          /\ UNCHANGED gw_attempt
                   ELSE IF st \in {Some("FAILED"), Some("DELETING"), Some("DELETED")}
                     THEN LET e == Raise("ValueError",
                                         <<"Gateway creation failed with status: ", st[1]>>)
                          IN /\ gw_pc' = OuterExcept(e).pc
                             /\ gw_outcome' = OuterExcept(e).outcome
                             /\ UNCHANGED gw_attempt
                   ELSE /\ gw_attempt' = gw_attempt + 1
                        /\ UNCHANGED <<gw_pc, gw_outcome>>
  /\ UNCHANGED outsideGateway

\* lines 213-214: the for loop ran out: TimeoutError, which goes through the
\* except clause of the function
GatewayTimesOut ==
  /\ gw_pc = "POLLING"
  /\ ~ (gw_attempt < gateway_max_attempts)
  /\ LET e == Raise("TimeoutError",
                    <<"Gateway did not become ACTIVE/READY within ", "300", " seconds">>)
     IN /\ gw_pc' = OuterExcept(e).pc
        /\ gw_outcome' = OuterExcept(e).outcome
  /\ UNCHANGED <<gw_attempt, gw_status, gw_polls, gw_observed>>
  /\ UNCHANGED outsideGateway

\* lines 228-247: the gateway that exists is looked up by name and its
\* details are fetched and returned; the status in them is not looked at
LookUpExisting ==
  /\ gw_pc = "LISTING"
  /\ \E listed \in {Return(TRUE), Return(FALSE), AccessDenied},
        gateway_details \in
          { Return([status |-> st]) : st \in GatewayStatuses } \cup {AccessDenied} :
       IF listed.kind = "raise"
         THEN /\ gw_pc' = "RAISED"
              /\ gw_outcome' = listed
              /\ UNCHANGED gw_observed
       ELSE IF ~ listed.value
         THEN /\ gw_pc' = "RAISED"
              /\ gw_outcome' = Raise("ValueError", <<"Gateway ", "name", " not found in list">>)
              /\ UNCHANGED gw_observed
       ELSE IF gateway_details.kind = "raise"
         THEN /\ gw_pc' = "RAISED"
              /\ gw_outcome' = gateway_details
              /\ UNCHANGED gw_observed
       ELSE /\ gw_pc' = "RETURNED"
            /\ gw_outcome' = Return(GatewayInfo)
            /\ gw_observed' = gw_observed \cup {gateway_details.value.status}
  /\ UNCHANGED <<gw_attempt, gw_status, gw_polls>>
  /\ UNCHANGED outsideGateway

NextGateway ==
  \/ CreateGateway
  \/ PollGateway
  \/ GatewayTimesOut
  \/ LookUpExisting

\* _create_gateway is called
InitGateway ==
  /\ gw_pc = "CREATING"
  /\ gw_attempt = 0
  /\ gw_status = None
  /\ gw_polls = 0
  /\ gw_observed = {}
  /\ gw_outcome = NoOutcome
  /\ NoRun
  /\ NoEntry
  /\ NoHandler
  /\ NoWait

SpecGateway == InitGateway /\ [][NextGateway]_vars

\* a get_gateway response carried the status ACTIVE or READY
ObservedActive == gw_observed \cap {Some("ACTIVE"), Some("READY")} # {}

\* the polling of _create_gateway: at most 60 polls; a poll that sees
\* FAILED, DELETING or DELETED ends the function with a raised error;
\* TimeoutError is raised exactly after 60 polls none of which saw ACTIVE
\* or READY
GatewayPollingIsBounded ==
  /\ gw_polls <= 60
  /\ gw_polls \in {gw_attempt, gw_attempt + 1}
  /\ (gw_status \in {Some("FAILED"), Some("DELETING"), Some("DELETED")}) =>
       (gw_pc = "RAISED" /\ gw_outcome.kind = "raise" /\ gw_outcome.exc = "ValueError")
  /\ (gw_outcome.kind = "raise" /\ gw_outcome.exc = "TimeoutError") =>
       (gw_pc = "RAISED" /\ gw_polls = 60 /\ ~ ObservedActive)
  /\ (gw_pc = "POLLING" /\ gw_polls = 60) => ~ ObservedActive

\* C27: _create_gateway polls at most 60 times, raises on FAILED, DELETING
\* and DELETED and on running out of attempts, and whenever it returns, a
\* get_gateway response for the returned gateway carried ACTIVE or READY.
C27_ReturnsOnlyAnActiveGateway ==
  /\ GatewayPollingIsBounded
  /\ (gw_pc = "RETURNED") => ObservedActive

====
